---- MODULE Spec2Model ----
(***************************************************************************)
(* Model of sqlite_to_postgres/load_data.py: the batched, idempotent       *)
(* migration of five tables from a SQLite source into the PostgreSQL       *)
(* schema "content".                                                       *)
(*                                                                         *)
(* A run of main() is a sequential walk over MIGRATION_ORDER.  Each action *)
(* below is one step of that walk: the call of get_table_names, the        *)
(* decision migrate_table_data takes for a table before it streams, one    *)
(* iteration of its "for batch in load_table_data(...)" loop, the end of   *)
(* that loop, and test_data_consistency.  The environment decides which    *)
(* store calls fail.                                                       *)
(***************************************************************************)
EXTENDS Integers, Sequences, FiniteSets, TLC

(* ------------------------------ bounds -------------------------------- *)

\* batch_size handed to cursor.fetchmany (the code's default is 500).
BatchSize == 2

\* Most rows a source table holds.
MaxRows == 3

\* Most rows the whole source holds.
MaxTotalRows == 4

\* Number of runs of main() against the same two stores.
MaxRuns == 2

\* Most store calls that fail in one behaviour.
MaxFaults == 1

\* Most times convert_value is applied to a value and then to its result.
MaxCalls == 2

(* ------------------------------ values -------------------------------- *)

\* A field value as sqlite3 hands it over: None, a str or a number.
NULL == [k |-> "null", s |-> ""]

Str(s) == [k |-> "str", s |-> s]

Num(s) == [k |-> "num", s |-> s]

\* isinstance(value, str)
IsStr(v) == v.k = "str"

\* str.strip() on the strings of the model.
Strip(s) ==
    CASE s = " "      -> ""
      [] s = " \t "   -> ""
      [] s = " abc "  -> "abc"
      [] OTHER        -> s

(* --------------------------- configuration ---------------------------- *)

MigrationOrderJunctionsFirst ==
    <<"genre_film_work", "person_film_work", "genre", "person", "film_work">>

MIGRATION_ORDER ==
    <<"genre", "person", "film_work", "genre_film_work", "person_film_work">>

TABLE_MAPPING ==
    [t \in {"film_work", "genre", "person", "genre_film_work", "person_film_work"} |-> t]

Tables == {MIGRATION_ORDER[i] : i \in 1..Len(MIGRATION_ORDER)}

\* FIELD_TYPES as a set of (table, field, type) entries.
FIELD_TYPES ==
    { <<"film_work", "creation_date", "date">>,
      <<"film_work", "rating", "float">>,
      <<"film_work", "description", "text">>,
      <<"genre", "description", "text">> }

\* FIELD_TYPES.get(table_name, {}).get(field_name, 'text')
FieldType(table_name, field_name) ==
    IF \E e \in FIELD_TYPES : e[1] = table_name /\ e[2] = field_name
    THEN (CHOOSE e \in FIELD_TYPES : e[1] = table_name /\ e[2] = field_name)[3]
    ELSE "text"

(* ---------------------------- Transformer ----------------------------- *)

ConvertValueBlankTextToNull(table_name, field_name, value) ==
    IF value = NULL
    THEN IF FieldType(table_name, field_name) \in {"date", "float"}
         THEN NULL
         ELSE Str("")
    ELSE IF IsStr(value) /\ Strip(value.s) = ""
         THEN NULL
         ELSE value

ConvertValueKeepsNull(table_name, field_name, value) ==
    IF value = NULL
    THEN NULL
    ELSE IF IsStr(value) /\ Strip(value.s) = ""
         THEN IF FieldType(table_name, field_name) \in {"date", "float"}
              THEN NULL
              ELSE value
         ELSE value

\* PostgresSaver.convert_value
ConvertValue(table_name, field_name, value) ==
    IF value = NULL
    THEN IF FieldType(table_name, field_name) = "date" THEN NULL
         ELSE IF FieldType(table_name, field_name) = "float" THEN NULL
         ELSE Str("")
    ELSE IF IsStr(value) /\ Strip(value.s) = ""
         THEN IF FieldType(table_name, field_name) = "date" THEN NULL
              ELSE IF FieldType(table_name, field_name) = "float" THEN NULL
              ELSE value
         ELSE value

\* PostgresSaver.convert_row_values
ConvertRowValues(table_name, row) ==
    [key \in DOMAIN row |-> ConvertValue(table_name, key, row[key])]

(* ------------------------------ source -------------------------------- *)

\* Primary keys of the source rows (uuid strings in the store).
IdName == <<"u1", "u2", "u3", "u4", "u5", "u6", "u7", "u8">>

\* Field values the source rows carry, row after row.
PayloadValues == <<Str(""), NULL, Str("abc"), Str(" "), Num("7.5")>>

Payload(i) == PayloadValues[((i - 1) % Len(PayloadValues)) + 1]

\* Column order PRAGMA table_info reports for each table of the source.
SourceColumns(table_name) ==
    CASE table_name = "genre"            -> <<"id", "description">>
      [] table_name = "person"           -> <<"id", "full_name">>
      [] table_name = "film_work"        -> <<"id", "creation_date", "rating">>
      [] table_name = "genre_film_work"  -> <<"id", "created_at">>
      [] table_name = "person_film_work" -> <<"id", "role">>

\* Row i of a source table: sqlite3.Row turned into a dict by dict(row).
SourceRow(table_name, i) ==
    LET cols == SourceColumns(table_name)
    IN  [c \in {cols[j] : j \in 1..Len(cols)} |->
            IF c = "id" THEN Str(IdName[i])
            ELSE IF c = "rating" THEN Payload(i + 1)
            ELSE Payload(i)]

\* Tables of the source that the destination mapping does not declare.
UnmappedTables == {"schema_info"}

(* ------------------------------- state -------------------------------- *)

VARIABLES
    srcTables,      \* names in sqlite_master of the source
    srcRows,        \* table -> its rows in the store's native order
    dest,           \* table -> committed rows of content.<table>, oldest first
    run,            \* number of the current run of main()
    pc,             \* "start", "loop", "stream", "done", "raised"
    idx,            \* position of main's loop in MIGRATION_ORDER
    table_names,    \* main: result of get_table_names
    status,         \* table -> Pending, Skipped, InProgress, Completed, Failed
    columns,        \* migrate_table_data: columns
    sqlite_count,   \* migrate_table_data: sqlite_count
    migrated_count, \* migrate_table_data: migrated_count
    fetched,        \* rows the cursor of load_table_data has handed out
    yielded,        \* table -> batches load_table_data yielded in this run
    lastSave,       \* the latest save_batch call of this run
    warned,         \* tables whose count check logged an inconsistency
    report,         \* test_data_consistency: table -> counts and match flag
    faults,         \* store calls that failed so far
    destStart,      \* dest when this run started
    history,        \* one record per finished run
    conv            \* a convert_value call: its arguments and its result

vars ==
    <<srcTables, srcRows, dest, run, pc, idx, table_names, status, columns,
      sqlite_count, migrated_count, fetched, yielded, lastSave, warned,
      report, faults, destStart, history, conv>>

NoSave == [table |-> "", ok |-> TRUE, rejected |-> 0, before |-> <<>>]

NoReport == [t \in {} |-> 0]

NoConv == [table |-> "", field |-> "", value |-> NULL, result |-> NULL, calls |-> 0]

Cur == MIGRATION_ORDER[idx]

\* The environment may fail a store call while the bound allows it.
MayFail == IF faults < MaxFaults THEN {FALSE, TRUE} ELSE {FALSE}

Total(f, S) ==
    LET RECURSIVE Sum(_)
        Sum(R) == IF R = {} THEN 0
                  ELSE LET x == CHOOSE y \in R : TRUE
                       IN  f[x] + Sum(R \ {x})
    IN  Sum(S)

(* ---------------------------- SQLiteLoader ---------------------------- *)

\* SQLiteLoader.get_table_names; failed: the query raised sqlite3.Error.
GetTableNames(failed) ==
    IF failed THEN {}
    ELSE {table \in srcTables : table \in DOMAIN TABLE_MAPPING}

\* SQLiteLoader.get_table_columns
GetTableColumns(table_name, failed) ==
    IF failed \/ table_name \notin srcTables THEN <<>>
    ELSE SourceColumns(table_name)

SqliteTableCountMinusOneOnError(table_name, failed) ==
    IF failed THEN 0 - 1
    ELSE IF table_name \notin srcTables THEN 0
    ELSE Len(srcRows[table_name])

\* SQLiteLoader.get_table_count
SqliteTableCount(table_name, failed) ==
    IF failed \/ table_name \notin srcTables THEN 0
    ELSE Len(srcRows[table_name])

Min(a, b) == IF a < b THEN a ELSE b

FetchManyOneShort(rows, pos, size) ==
    IF pos + size <= Len(rows) THEN SubSeq(rows, pos + 1, pos + size)
    ELSE <<>>

FetchManyTakesAll(rows, pos, size) ==
    SubSeq(rows, pos + 1, Len(rows))

\* cursor.fetchmany(batch_size) of load_table_data, pos rows already fetched.
FetchMany(rows, pos, size) ==
    SubSeq(rows, pos + 1, Min(pos + size, Len(rows)))

(* ---------------------------- PostgresSaver --------------------------- *)

\* dict.get(col): None for a missing key.
Get(row, col) == IF col \in DOMAIN row THEN row[col] ELSE NULL

\* The row INSERT INTO ... (columns) VALUES (row_values) names.
NewRow(cols, row_values) ==
    [c \in {cols[j] : j \in 1..Len(cols)} |->
        row_values[CHOOSE j \in 1..Len(cols) : cols[j] = c]]

InsertRowAlways(rows, cols, row_values) ==
    Append(rows, NewRow(cols, row_values))

InsertRowUpserts(rows, cols, row_values) ==
    IF \E k \in 1..Len(rows) : Get(rows[k], "id") = Get(NewRow(cols, row_values), "id")
    THEN [k \in 1..Len(rows) |->
             IF Get(rows[k], "id") = Get(NewRow(cols, row_values), "id")
             THEN NewRow(cols, row_values) ELSE rows[k]]
    ELSE Append(rows, NewRow(cols, row_values))

InsertRowPrepends(rows, cols, row_values) ==
    IF \E k \in 1..Len(rows) : Get(rows[k], "id") = Get(NewRow(cols, row_values), "id")
    THEN rows
    ELSE <<NewRow(cols, row_values)>> \o rows

\* One row of the INSERT ... ON CONFLICT (id) DO NOTHING.
InsertRow(rows, cols, row_values) ==
    IF \E k \in 1..Len(rows) : Get(rows[k], "id") = Get(NewRow(cols, row_values), "id")
    THEN rows
    ELSE Append(rows, NewRow(cols, row_values))

\* cursor.executemany(sql, values) over the first n value lists.
RECURSIVE ExecuteMany(_, _, _, _)
ExecuteMany(rows, cols, values, n) ==
    IF n = 0 THEN rows
    ELSE InsertRow(ExecuteMany(rows, cols, values, n - 1), cols, values[n])

RollbackKeepsApplied(committed, working) == working

\* conn.rollback(): the rows applied since the last commit are dropped.
Rollback(committed, working) == committed

\* PostgresSaver.save_batch on the destination db; reject = 0 when the store
\* accepts every row, else the position of the row that raises psycopg.Error.
SaveBatch(db, table_name, cols, batch, reject) ==
    LET pg_table_name ==
            IF table_name \in DOMAIN TABLE_MAPPING
            THEN TABLE_MAPPING[table_name] ELSE table_name
        values ==
            [i \in 1..Len(batch) |->
                LET converted_row == ConvertRowValues(table_name, batch[i])
                IN  [j \in 1..Len(cols) |-> Get(converted_row, cols[j])]]
        applied ==
            ExecuteMany(db[pg_table_name], cols, values,
                        IF reject = 0 THEN Len(batch) ELSE reject - 1)
    IN  IF reject = 0
        THEN [ok |-> TRUE, db |-> [db EXCEPT ![pg_table_name] = applied]]
        ELSE [ok |-> FALSE,
              db |-> [db EXCEPT ![pg_table_name] =
                         Rollback(db[pg_table_name], applied)]]

\* PostgresSaver.get_table_count
PgTableCount(db, table_name, failed) ==
    IF failed THEN 0 ELSE Len(db[TABLE_MAPPING[table_name]])

(* ------------------------------- Init --------------------------------- *)

\* A row the destination may hold before the first run: one whose primary
\* key the source does not have ("foreign"), or an older copy of source row 1.
StaleRow(table_name, kind) ==
    LET cols == SourceColumns(table_name)
    IN  [c \in {cols[j] : j \in 1..Len(cols)} |->
            IF c = "id"
            THEN (IF kind = "foreign" THEN Str("u0") ELSE Str(IdName[1]))
            ELSE Str("old")]

\* The destination before the first run: empty, or holding both stale rows
\* in every table.
InitialDest(kind) ==
    [t \in Tables |->
        IF kind = "empty" THEN <<>>
        ELSE <<StaleRow(t, "foreign"), StaleRow(t, "conflict")>>]

\* The state of a process that has just entered main().
ProcessStart ==
    /\ pc = "start"
    /\ idx = 1
    /\ table_names = {}
    /\ status = [t \in Tables |-> "Pending"]
    /\ columns = <<>>
    /\ sqlite_count = 0
    /\ migrated_count = 0
    /\ fetched = 0
    /\ yielded = [t \in Tables |-> <<>>]
    /\ lastSave = NoSave
    /\ warned = {}
    /\ report = NoReport

Init ==
    /\ \E present \in SUBSET Tables :
       \E n \in [Tables -> 0..MaxRows] :
          /\ \A t \in Tables \ present : n[t] = 0
          /\ Total(n, Tables) <= MaxTotalRows
          /\ srcTables = present \cup UnmappedTables
          /\ srcRows = [t \in Tables |-> [i \in 1..n[t] |-> SourceRow(t, i)]]
    /\ \E kind \in {"empty", "stale"} :
          /\ dest = InitialDest(kind)
          /\ destStart = InitialDest(kind)
    /\ ProcessStart
    /\ run = 1
    /\ faults = 0
    /\ history = <<>>
    /\ conv = NoConv

(* --------------------------- Orchestrator ----------------------------- *)

RunRecord(outcome, db, nfaults) ==
    [outcome |-> outcome, faults |-> nfaults, start |-> destStart, end |-> db]

NextTableHangs ==
    /\ idx' = idx
    /\ pc' = "waiting"

NextTableBreaksLoop ==
    /\ idx' = Len(MIGRATION_ORDER) + 1
    /\ pc' = "loop"

\* main: the for loop over MIGRATION_ORDER goes on to its next table.
NextTable ==
    /\ idx' = idx + 1
    /\ pc' = "loop"

RaiseSwallowed ==
    /\ status' = [status EXCEPT ![Cur] = "Failed"]
    /\ idx' = idx + 1
    /\ pc' = "loop"

\* The except clauses of migrate_table_data and main log and re-raise:
\* the table has failed and the process ends.
Raise ==
    /\ status' = [status EXCEPT ![Cur] = "Failed"]
    /\ idx' = idx
    /\ pc' = "raised"

AfterCountCheckRaisesOnMismatch(consistent) ==
    IF consistent
    THEN status' = [status EXCEPT ![Cur] = "Completed"] /\ NextTable
    ELSE Raise

\* migrate_table_data after the batch loop: the counts are compared and
\* logged, as a success or as a warning; either way the function returns.
AfterCountCheck(consistent) ==
    /\ status' = [status EXCEPT ![Cur] = "Completed"]
    /\ NextTable

\* main: table_names = sqlite_loader.get_table_names()
Start ==
    /\ pc = "start"
    /\ \E failed \in MayFail :
          /\ table_names' = GetTableNames(failed)
          /\ faults' = faults + (IF failed THEN 1 ELSE 0)
    /\ pc' = "loop"
    /\ idx' = 1
    /\ UNCHANGED <<srcTables, srcRows, dest, run, status, columns, sqlite_count,
                   migrated_count, fetched, yielded, lastSave, warned, report,
                   destStart, history, conv>>

\* main: the table is not in table_names; a warning, then the next table.
SkipAbsent ==
    /\ pc = "loop"
    /\ idx <= Len(MIGRATION_ORDER)
    /\ Cur \notin table_names
    /\ status' = [status EXCEPT ![Cur] = "Skipped"]
    /\ NextTable
    /\ UNCHANGED <<srcTables, srcRows, dest, run, table_names, columns,
                   sqlite_count, migrated_count, fetched, yielded, lastSave,
                   warned, report, faults, destStart, history, conv>>

\* migrate_table_data: get_table_columns returned no columns; return.
SkipNoColumns ==
    /\ pc = "loop"
    /\ idx <= Len(MIGRATION_ORDER)
    /\ Cur \in table_names
    /\ \E failed \in MayFail :
          /\ GetTableColumns(Cur, failed) = <<>>
          /\ columns' = GetTableColumns(Cur, failed)
          /\ faults' = faults + (IF failed THEN 1 ELSE 0)
    /\ status' = [status EXCEPT ![Cur] = "Skipped"]
    /\ NextTable
    /\ UNCHANGED <<srcTables, srcRows, dest, run, table_names,
                   sqlite_count, migrated_count, fetched, yielded, lastSave,
                   warned, report, destStart, history, conv>>

\* migrate_table_data: columns were read, sqlite_count is 0; return.
SkipNoRows ==
    /\ pc = "loop"
    /\ idx <= Len(MIGRATION_ORDER)
    /\ Cur \in table_names
    /\ GetTableColumns(Cur, FALSE) # <<>>
    /\ \E failed \in MayFail :
          /\ SqliteTableCount(Cur, failed) = 0
          /\ sqlite_count' = SqliteTableCount(Cur, failed)
          /\ faults' = faults + (IF failed THEN 1 ELSE 0)
    /\ columns' = GetTableColumns(Cur, FALSE)
    /\ status' = [status EXCEPT ![Cur] = "Skipped"]
    /\ NextTable
    /\ UNCHANGED <<srcTables, srcRows, dest, run, table_names,
                   migrated_count, fetched, yielded, lastSave, warned, report,
                   destStart, history, conv>>

\* migrate_table_data: columns and a non-zero count were read; migrated_count
\* = 0 and the batch loop is entered.
BeginStream ==
    /\ pc = "loop"
    /\ idx <= Len(MIGRATION_ORDER)
    /\ Cur \in table_names
    /\ GetTableColumns(Cur, FALSE) # <<>>
    /\ \E failed \in MayFail :
          /\ SqliteTableCount(Cur, failed) # 0
          /\ sqlite_count' = SqliteTableCount(Cur, failed)
          /\ faults' = faults + (IF failed THEN 1 ELSE 0)
    /\ columns' = GetTableColumns(Cur, FALSE)
    /\ migrated_count' = 0
    /\ fetched' = 0
    /\ status' = [status EXCEPT ![Cur] = "InProgress"]
    /\ pc' = "stream"
    /\ UNCHANGED <<srcTables, srcRows, dest, run, idx, table_names, yielded,
                   lastSave, warned, report, destStart, history, conv>>

\* load_table_data raises sqlite3.Error (execute or fetchmany); the error
\* leaves migrate_table_data and main.
ReadFail ==
    /\ pc = "stream"
    /\ faults < MaxFaults
    /\ faults' = faults + 1
    /\ Raise
    /\ history' = Append(history, RunRecord("raised", dest, faults + 1))
    /\ UNCHANGED <<srcTables, srcRows, dest, run, table_names, columns,
                   sqlite_count, migrated_count, fetched, yielded, lastSave,
                   warned, report, destStart, conv>>

\* One iteration of the batch loop: fetchmany yields a batch, save_batch
\* commits it, migrated_count grows by its length.
WriteBatch ==
    /\ pc = "stream"
    /\ LET batch == FetchMany(srcRows[Cur], fetched, BatchSize)
           res == SaveBatch(dest, Cur, columns, batch, 0)
       IN  /\ batch # <<>>
           /\ dest' = res.db
           /\ yielded' = [yielded EXCEPT ![Cur] = Append(@, batch)]
           /\ lastSave' = [table |-> Cur, ok |-> TRUE, rejected |-> 0,
                           before |-> dest[Cur]]
           /\ fetched' = fetched + Len(batch)
           /\ migrated_count' = migrated_count + Len(batch)
    /\ UNCHANGED <<srcTables, srcRows, run, pc, idx, table_names, status,
                   columns, sqlite_count, warned, report, faults, destStart,
                   history, conv>>

\* One iteration of the batch loop in which the store rejects a row of the
\* batch: save_batch rolls back and re-raises, the error leaves main.
WriteFail ==
    /\ pc = "stream"
    /\ faults < MaxFaults
    /\ LET batch == FetchMany(srcRows[Cur], fetched, BatchSize)
       IN  /\ batch # <<>>
           /\ \E reject \in 1..Len(batch) :
                 LET res == SaveBatch(dest, Cur, columns, batch, reject)
                 IN  /\ dest' = res.db
                     /\ lastSave' = [table |-> Cur, ok |-> FALSE,
                                     rejected |-> reject, before |-> dest[Cur]]
                     /\ history' = Append(history,
                                          RunRecord("raised", res.db, faults + 1))
           /\ yielded' = [yielded EXCEPT ![Cur] = Append(@, batch)]
           /\ fetched' = fetched + Len(batch)
    /\ faults' = faults + 1
    /\ Raise
    /\ UNCHANGED <<srcTables, srcRows, run, table_names, columns,
                   sqlite_count, migrated_count, warned, report, destStart,
                   conv>>

\* fetchmany returns no rows: the loop ends, the counts are compared (a
\* difference is a warning) and main goes on to the next table.
FinishTable ==
    /\ pc = "stream"
    /\ FetchMany(srcRows[Cur], fetched, BatchSize) = <<>>
    /\ \E failed \in MayFail :
          /\ warned' = IF sqlite_count = PgTableCount(dest, Cur, failed)
                       THEN warned ELSE warned \cup {Cur}
          /\ faults' = faults + (IF failed THEN 1 ELSE 0)
          /\ AfterCountCheck(sqlite_count = PgTableCount(dest, Cur, failed))
    /\ UNCHANGED <<srcTables, srcRows, dest, run, table_names, columns,
                   sqlite_count, migrated_count, fetched, yielded, lastSave,
                   report, destStart, history, conv>>

ConsistencyReportAlwaysConsistent(fault) ==
    [t \in GetTableNames(fault = "names") |->
        [sqlite |-> SqliteTableCount(t, fault = "sqlite"),
         postgres |-> PgTableCount(dest, t, fault = "postgres"),
         consistent |-> TRUE]]

\* The counts test_data_consistency logs; fault: the store call of the
\* check that fails, if any.
ConsistencyReport(fault) ==
    [t \in GetTableNames(fault = "names") |->
        LET sqlite_n == SqliteTableCount(t, fault = "sqlite")
            postgres_n == PgTableCount(dest, t, fault = "postgres")
        IN  [sqlite |-> sqlite_n, postgres |-> postgres_n,
             consistent |-> (sqlite_n = postgres_n)]]

\* main: test_data_consistency, then "Data migration completed successfully!".
TestDataConsistency ==
    /\ pc = "loop"
    /\ idx = Len(MIGRATION_ORDER) + 1
    /\ \E fault \in {"none"} \cup
                    (IF faults < MaxFaults
                     THEN {"names", "sqlite", "postgres"} ELSE {}) :
          /\ report' = ConsistencyReport(fault)
          /\ faults' = faults + (IF fault = "none" THEN 0 ELSE 1)
          /\ history' = Append(history,
                               RunRecord("succeeded", dest,
                                         faults + (IF fault = "none" THEN 0 ELSE 1)))
    /\ pc' = "done"
    /\ UNCHANGED <<srcTables, srcRows, dest, run, idx, table_names, status,
                   columns, sqlite_count, migrated_count, fetched, yielded,
                   lastSave, warned, destStart, conv>>

\* main() is started again on the same two stores after a successful run.
NextRun ==
    /\ pc = "done"
    /\ run < MaxRuns
    /\ run' = run + 1
    /\ pc' = "start"
    /\ idx' = 1
    /\ table_names' = {}
    /\ status' = [t \in Tables |-> "Pending"]
    /\ columns' = <<>>
    /\ sqlite_count' = 0
    /\ migrated_count' = 0
    /\ fetched' = 0
    /\ yielded' = [t \in Tables |-> <<>>]
    /\ lastSave' = NoSave
    /\ warned' = {}
    /\ report' = NoReport
    /\ destStart' = dest
    /\ UNCHANGED <<srcTables, srcRows, dest, faults, history, conv>>

Next ==
    \/ Start
    \/ SkipAbsent
    \/ SkipNoColumns
    \/ SkipNoRows
    \/ BeginStream
    \/ ReadFail
    \/ WriteBatch
    \/ WriteFail
    \/ FinishTable
    \/ TestDataConsistency
    \/ NextRun

Spec == Init /\ [][Next]_vars

\* main is one sequential process that is never suspended: a step that can
\* be taken is taken.
LiveSpec == Spec /\ WF_vars(Next)

(* ------------------- convert_value on its own ------------------------- *)

\* Tables, fields and values convert_value is called with.
ConvTables == Tables \cup {"unmapped"}

ConvFields ==
    {"id", "name", "description", "creation_date", "rating", "type",
     "file_path", "created_at", "updated_at", "full_name", "role"}

ConvValues ==
    {NULL, Str(""), Str(" "), Str(" \t "), Str(" abc "), Str("abc"),
     Str("2021-06-16"), Num("7.5"), Num("0")}

ConvInit ==
    /\ srcTables = UnmappedTables
    /\ srcRows = [t \in Tables |-> <<>>]
    /\ dest = InitialDest("empty")
    /\ destStart = InitialDest("empty")
    /\ ProcessStart
    /\ run = 1
    /\ faults = 0
    /\ history = <<>>
    /\ \E t \in ConvTables, f \in ConvFields, v \in ConvValues :
          conv = [table |-> t, field |-> f, value |-> v, result |-> v,
                  calls |-> 0]

\* A call of convert_value, on the source value first and then on what the
\* call before returned.
ConvertCall ==
    /\ conv.calls < MaxCalls
    /\ conv' = [conv EXCEPT
                   !.result = ConvertValue(conv.table, conv.field, conv.result),
                   !.calls = conv.calls + 1]
    /\ UNCHANGED <<srcTables, srcRows, dest, run, pc, idx, table_names, status,
                   columns, sqlite_count, migrated_count, fetched, yielded,
                   lastSave, warned, report, faults, destStart, history>>

ConvNext == ConvertCall

ConvSpec == ConvInit /\ [][ConvNext]_vars

(* ============================== claims ================================ *)

Index(t) == CHOOSE i \in 1..Len(MIGRATION_ORDER) : MIGRATION_ORDER[i] = t

Keys(rows) == {Get(rows[k], "id") : k \in 1..Len(rows)}

Counts(db) == [t \in Tables |-> Len(db[t])]

Last(seq) == seq[Len(seq)]

\* Run k ended without raising and no store call failed during it.
CleanRun(k) ==
    /\ k <= Len(history)
    /\ history[k].outcome = "succeeded"
    /\ history[k].faults = (IF k = 1 THEN 0 ELSE history[k - 1].faults)

\* C1 - Idempotence: from an empty destination, when the first k >= 2 runs
\* all end without any failure, every destination table has after run k the
\* row count it had after run 1, and no primary key occurs twice.
C1_Idempotence ==
    \A k \in 2..Len(history) :
        (history[1].start = InitialDest("empty") /\ \A j \in 1..k : CleanRun(j))
        => /\ Counts(history[k].end) = Counts(history[1].end)
           /\ \A t \in Tables :
                 Cardinality(Keys(history[k].end[t])) = Len(history[k].end[t])

C1_Witness ==
    /\ Len(history) = 2
    /\ history[1].start = InitialDest("empty")
    /\ CleanRun(1) /\ CleanRun(2)
    /\ \E t \in Tables : Len(history[2].end[t]) > BatchSize

WrittenBefore(t) ==
    CASE t = "film_work"        -> {"genre", "person"}
      [] t = "genre_film_work"  -> {"film_work", "genre", "person"}
      [] t = "person_film_work" -> {"film_work", "genre", "person"}
      [] OTHER                  -> {}

\* C3 - Foreign-key-safe ordering: a table is in progress, has had a batch
\* handed to save_batch or has ended its migration only when every table
\* ordered before it is Completed or Skipped.
C3_ForeignKeySafeOrder ==
    \A t \in Tables :
        (status[t] \in {"InProgress", "Completed", "Failed"} \/ yielded[t] # <<>>)
        => \A d \in WrittenBefore(t) : status[d] \in {"Completed", "Skipped"}

C3_Witness ==
    /\ status["genre_film_work"] = "InProgress"
    /\ yielded["genre_film_work"] # <<>>
    /\ status["genre"] = "Completed"
    /\ status["film_work"] = "Completed"

\* C4 - Fail-fast abort: a rejected batch makes its table Failed; a Failed
\* table is the current one, the run has raised, the later tables are still
\* Pending with no batch read or written, no consistency report exists and
\* the process takes no further step.
C4_FailFast ==
    /\ (~lastSave.ok => status[lastSave.table] = "Failed")
    /\ \A t \in Tables :
          status[t] = "Failed" =>
              /\ pc = "raised"
              /\ idx <= Len(MIGRATION_ORDER)
              /\ t = Cur
              /\ \A j \in (idx + 1)..Len(MIGRATION_ORDER) :
                    /\ status[MIGRATION_ORDER[j]] = "Pending"
                    /\ yielded[MIGRATION_ORDER[j]] = <<>>
                    /\ dest[MIGRATION_ORDER[j]] = destStart[MIGRATION_ORDER[j]]
              /\ report = NoReport
              /\ Len(history) = run
              /\ Last(history).outcome = "raised"
              /\ ~ENABLED Next

C4_Witness ==
    /\ pc = "raised"
    /\ ~lastSave.ok
    /\ \E j \in (idx + 1)..Len(MIGRATION_ORDER) :
          /\ MIGRATION_ORDER[j] \in table_names
          /\ Len(srcRows[MIGRATION_ORDER[j]]) > 0

\* C5 - Batch atomicity: after an accepted save_batch every row of the batch
\* is in the destination and nothing that was there is lost; after a
\* rejected one the table is exactly what it was before the call and the
\* error has been raised.
C5_BatchAtomicity ==
    lastSave.table # "" =>
        LET t == lastSave.table
            batch == Last(yielded[t])
        IN  IF lastSave.ok
            THEN /\ \A i \in 1..Len(batch) :
                       ConvertValue(t, "id", batch[i]["id"]) \in Keys(dest[t])
                 /\ SubSeq(dest[t], 1, Len(lastSave.before)) = lastSave.before
                 /\ Len(dest[t]) - Len(lastSave.before) =
                       Cardinality(Keys(batch) \ Keys(lastSave.before))
            ELSE /\ dest[t] = lastSave.before
                 /\ pc = "raised"
                 /\ status[t] = "Failed"

C5_Witness ==
    /\ lastSave.table # ""
    /\ ~lastSave.ok
    /\ lastSave.rejected > 1
    /\ Last(yielded[lastSave.table])[1]["id"] \notin Keys(lastSave.before)

\* C6 (as claimed) - after a run aborted by a write failure, only tables
\* completed before the failing one hold rows this run committed.
C6_FailedRunOutcome ==
    (pc = "raised" /\ ~lastSave.ok) =>
        \A t \in Tables :
            dest[t] # destStart[t] => (status[t] = "Completed" /\ Index(t) < idx)

\* C6 (amended) - after a run aborted by a write failure, the rows this run
\* committed belong to tables completed before the failing one or to the
\* batches of the failing table saved before the rejected batch; the
\* rejected batch and the later tables gave the destination nothing.
C6_FailedRunOutcomeAmended ==
    (pc = "raised" /\ ~lastSave.ok) =>
        \A t \in Tables :
            dest[t] # destStart[t] =>
                \/ status[t] = "Completed" /\ Index(t) < idx
                \/ /\ t = Cur
                   /\ migrated_count = BatchSize * (Len(yielded[t]) - 1)
                   /\ Keys(dest[t]) \ Keys(destStart[t])
                         \subseteq Keys(SubSeq(srcRows[t], 1, migrated_count))

C6_Witness ==
    /\ pc = "raised"
    /\ ~lastSave.ok
    /\ dest[Cur] # destStart[Cur]
    /\ \E t \in Tables : status[t] = "Completed" /\ dest[t] # destStart[t]

\* C7 - Batching boundary: every batch load_table_data yields is non-empty,
\* every batch but the last has BatchSize rows, and a table read to its end
\* has given ceil(N / BatchSize) batches.
C7_BatchingBoundary ==
    \A t \in Tables :
        /\ \A i \in 1..Len(yielded[t]) :
              /\ Len(yielded[t][i]) > 0
              /\ Len(yielded[t][i]) <= BatchSize
              /\ (i < Len(yielded[t]) => Len(yielded[t][i]) = BatchSize)
        /\ status[t] = "Completed" =>
              Len(yielded[t]) = (Len(srcRows[t]) + BatchSize - 1) \div BatchSize

C7_Witness ==
    \E t \in Tables :
        /\ status[t] = "Completed"
        /\ Len(srcRows[t]) = BatchSize + 1
        /\ Len(yielded[t]) = 2
        /\ Len(yielded[t][1]) = BatchSize
        /\ Len(yielded[t][2]) = 1

\* The declared type of a field, as the configuration lists it.
DeclaredType(t, f) ==
    CASE t = "film_work" /\ f = "creation_date" -> "date"
      [] t = "film_work" /\ f = "rating"        -> "float"
      [] OTHER                                  -> "text"

BlankStrings == {Str(""), Str(" "), Str(" \t ")}

\* C8 - Null normalization: convert_value gives NULL for a date or float
\* field whose value is NULL or a blank string, the empty string for a text
\* field whose value is NULL, and the value itself in every other case.
C8_NullNormalization ==
    conv.calls = 1 =>
        conv.result =
            IF /\ DeclaredType(conv.table, conv.field) \in {"date", "float"}
               /\ (conv.value = NULL \/ conv.value \in BlankStrings)
            THEN NULL
            ELSE IF DeclaredType(conv.table, conv.field) = "text" /\ conv.value = NULL
            THEN Str("")
            ELSE conv.value

C8_Witness ==
    /\ conv.calls = 1
    /\ conv.table = "film_work"
    /\ conv.field = "rating"
    /\ conv.value = Str(" \t ")
    /\ conv.result = NULL

\* C9 - Skip semantics: when main reaches a table that is not in the
\* source's table set, its step marks the table Skipped, calls save_batch
\* for nothing, leaves the destination alone and moves to the next table.
C9_SkipAbsent ==
    [][(pc = "loop" /\ idx <= Len(MIGRATION_ORDER) /\ Cur \notin table_names)
        => /\ status'[Cur] = "Skipped"
           /\ idx' = idx + 1
           /\ pc' = "loop"
           /\ dest' = dest
           /\ yielded' = yielded
           /\ lastSave' = lastSave]_vars

C9_Witness ==
    \E t \in Tables :
        /\ t \notin table_names
        /\ status[t] = "Skipped"
        /\ yielded[t] = <<>>
        /\ pc = "stream"
        /\ Index(t) < idx
        /\ yielded[Cur] # <<>>

\* C10 (as claimed) - a source genre row with description '' is in the
\* destination with description NULL once genre is migrated.
C10_GenreDescriptionNull ==
    (status["genre"] = "Completed" /\ destStart["genre"] = <<>>) =>
        \A i \in 1..Len(srcRows["genre"]) :
            srcRows["genre"][i]["description"] = Str("") =>
                \E k \in 1..Len(dest["genre"]) :
                    /\ dest["genre"][k]["id"] = srcRows["genre"][i]["id"]
                    /\ dest["genre"][k]["description"] = NULL

\* C10 (amended) - a source genre row with description '' is in the
\* destination with description '' once genre is migrated: the field is
\* declared text, and a text value is rewritten only when it is NULL.
C10_GenreDescriptionEmpty ==
    (status["genre"] = "Completed" /\ destStart["genre"] = <<>>) =>
        \A i \in 1..Len(srcRows["genre"]) :
            srcRows["genre"][i]["description"] = Str("") =>
                \E k \in 1..Len(dest["genre"]) :
                    /\ dest["genre"][k]["id"] = srcRows["genre"][i]["id"]
                    /\ dest["genre"][k]["description"] = Str("")

C10_Witness ==
    /\ status["genre"] = "Completed"
    /\ destStart["genre"] = <<>>
    /\ Len(srcRows["genre"]) = 1
    /\ srcRows["genre"][1]["description"] = Str("")
    /\ dest["genre"] = <<[id |-> Str("u1"), description |-> Str("")]>>

RECURSIVE Concat(_)
Concat(batches) ==
    IF batches = <<>> THEN <<>>
    ELSE Concat(SubSeq(batches, 1, Len(batches) - 1)) \o Last(batches)

\* C11 - Write sequence of a table: the batches read and handed to
\* save_batch are, one after the other, the source rows read so far; for a
\* completed table they are all its rows, each once and in the store's
\* order, migrated_count is their number, and a destination table that was
\* empty holds exactly the converted rows in that order.
C11_WriteSequence ==
    \A t \in Tables :
        /\ Len(Concat(yielded[t])) <= Len(srcRows[t])
        /\ Concat(yielded[t]) = SubSeq(srcRows[t], 1, Len(Concat(yielded[t])))
        /\ (pc = "stream" /\ Cur = t =>
              /\ Len(Concat(yielded[t])) = fetched
              /\ migrated_count = fetched)
        /\ status[t] = "Completed" =>
              /\ Concat(yielded[t]) = srcRows[t]
              /\ (pc = "loop" /\ idx = Index(t) + 1 =>
                     migrated_count = Len(srcRows[t]))
              /\ (destStart[t] = <<>> =>
                     dest[t] = [i \in 1..Len(srcRows[t]) |->
                                   ConvertRowValues(t, srcRows[t][i])])

C11_Witness ==
    \E t \in Tables :
        /\ status[t] = "Completed"
        /\ destStart[t] = <<>>
        /\ Len(srcRows[t]) = BatchSize + 1
        /\ yielded[t] = <<SubSeq(srcRows[t], 1, BatchSize),
                          <<srcRows[t][BatchSize + 1]>> >>
        /\ Len(dest[t]) = BatchSize + 1
        /\ dest[t][1]["id"] = srcRows[t][1]["id"]
        /\ dest[t][BatchSize + 1]["id"] = srcRows[t][BatchSize + 1]["id"]

\* The consistency check of the current run has been logged and the run is
\* recorded as succeeded.
CheckLogged ==
    /\ Len(history) = run
    /\ Last(history).outcome = "succeeded"
    /\ DOMAIN report \subseteq srcTables \cap Tables

\* C12 - Outcome of a successful run, as stated: when main has finished
\* without raising, every table of MIGRATION_ORDER has been migrated
\* (Completed) and the consistency report has been logged.
C12_SuccessfulRunOutcome ==
    pc = "done" =>
        /\ \A t \in Tables : status[t] = "Completed"
        /\ CheckLogged

\* C12 - Outcome of a successful run, amended: when main has finished
\* without raising, every table of MIGRATION_ORDER is Completed or Skipped
\* and the consistency report has been logged; a Completed table was listed
\* by the source, had rows, and all its rows were written; a Skipped table
\* had nothing written; when no store call failed during the run, the
\* Completed tables are exactly the source's mapped tables that have rows.
C12_SuccessfulRunOutcomeAmended ==
    pc = "done" =>
        /\ CheckLogged
        /\ \A t \in Tables :
              /\ status[t] \in {"Completed", "Skipped"}
              /\ status[t] = "Completed" =>
                    /\ t \in table_names
                    /\ srcRows[t] # <<>>
                    /\ Concat(yielded[t]) = srcRows[t]
                    /\ Keys(srcRows[t]) \subseteq Keys(dest[t])
              /\ status[t] = "Skipped" =>
                    /\ yielded[t] = <<>>
                    /\ dest[t] = destStart[t]
              /\ CleanRun(run) =>
                    (status[t] = "Completed" <=>
                        t \in srcTables /\ srcRows[t] # <<>>)

C12_Witness ==
    /\ pc = "done"
    /\ \E t \in Tables : status[t] = "Completed"
    /\ \E t \in Tables : status[t] = "Skipped" /\ t \notin srcTables
    /\ \E t \in Tables :
          status[t] = "Skipped" /\ t \in srcTables /\ srcRows[t] # <<>>

\* C13 - Enumeration failures never abort: a step in which listing the
\* source tables fails leaves the empty table set and enters the table loop;
\* a step in which reading the current table's columns or counting its rows
\* fails leaves that table Skipped with the empty column list or the count
\* 0, writes nothing, raises nothing and moves on to the next table; a
\* failure inside the final check still ends the run as succeeded.
C13_EnumerationFailuresSwallowed ==
    [][ faults' > faults /\ pc \in {"start", "loop"} =>
          /\ pc' # "raised"
          /\ dest' = dest
          /\ yielded' = yielded
          /\ \A t \in Tables : status'[t] # "Failed"
          /\ pc = "start" =>
                /\ table_names' = {}
                /\ pc' = "loop"
                /\ idx' = 1
          /\ pc = "loop" /\ idx <= Len(MIGRATION_ORDER) =>
                /\ status[Cur] = "Pending"
                /\ status' = [status EXCEPT ![Cur] = "Skipped"]
                /\ columns' = <<>> \/ sqlite_count' = 0
                /\ idx' = idx + 1
                /\ pc' = "loop"
                /\ history' = history
          /\ pc = "loop" /\ idx = Len(MIGRATION_ORDER) + 1 =>
                /\ pc' = "done"
                /\ Last(history').outcome = "succeeded"
      ]_vars

C13_Witness ==
    /\ faults >= 1
    /\ \E t \in table_names :
          /\ srcRows[t] # <<>>
          /\ status[t] = "Skipped"
          /\ dest[t] = destStart[t]
          /\ \E u \in Tables :
                /\ Index(u) > Index(t)
                /\ status[u] = "Completed"
    /\ \A t \in Tables : status[t] # "Failed"

\* C14 - A count mismatch is never fatal: a table whose destination count
\* differed from its source count after its last batch is Completed and the
\* loop has moved past it, a raised run never stops at a table for which
\* the mismatch was reported, and a run whose final check found a mismatch
\* has still ended as succeeded with every table Skipped or Completed.
C14_MismatchNeverFatal ==
    /\ \A t \in warned :
          /\ status[t] = "Completed"
          /\ idx > Index(t)
          /\ pc = "done" =>
                \A u \in Tables : status[u] \in {"Skipped", "Completed"}
    /\ pc = "raised" => Cur \notin warned
    /\ pc = "stream" /\ fetched = Len(srcRows[Cur])
          /\ sqlite_count # Len(dest[Cur]) => ENABLED FinishTable
    /\ pc = "done" /\ (\E t \in DOMAIN report : ~report[t].consistent) =>
          /\ Last(history).outcome = "succeeded"
          /\ \A u \in Tables : status[u] # "Failed"

C14_Witness ==
    /\ pc = "done"
    /\ \E t \in warned :
          /\ status[t] = "Completed"
          /\ t \in DOMAIN report
          /\ ~report[t].consistent
          /\ \E u \in Tables :
                Index(u) > Index(t) /\ status[u] = "Completed"
    /\ Last(history).outcome = "succeeded"

StatusSteps ==
    {<<"Pending", "Skipped">>, <<"Pending", "InProgress">>,
     <<"InProgress", "Completed">>, <<"InProgress", "Failed">>}

\* C15 - Per-table state machine: within a run a table's state changes only
\* along Pending->Skipped, Pending->InProgress, InProgress->Completed or
\* InProgress->Failed; a table becomes InProgress only when it is in the
\* source table set and a non-empty column list and a non-zero count were
\* read for it, and Skipped only when one of the three is missing; at most
\* one table is InProgress; a table leaves Pending only when every earlier
\* table of MIGRATION_ORDER is Skipped or Completed.
C15_TableStateMachine ==
    [][ run' = run =>
          /\ \A t \in Tables :
                status'[t] # status[t] =>
                   /\ <<status[t], status'[t]>> \in StatusSteps
                   /\ t = Cur
                   /\ status[t] = "Pending" =>
                         \A u \in Tables :
                            Index(u) < Index(t) =>
                               status[u] \in {"Skipped", "Completed"}
                   /\ status'[t] = "InProgress" =>
                         /\ t \in table_names
                         /\ columns' # <<>>
                         /\ sqlite_count' # 0
                         /\ srcRows[t] # <<>>
                   /\ status'[t] = "Skipped" =>
                         \/ t \notin table_names
                         \/ columns' = <<>>
                         \/ sqlite_count' = 0
          /\ Cardinality({t \in Tables : status'[t] = "InProgress"}) <= 1
      ]_vars

C15_Witness ==
    /\ \E t \in Tables : status[t] = "Skipped"
    /\ \E t \in Tables : status[t] = "Completed"
    /\ \E t \in Tables : status[t] = "Failed" /\ Index(t) < Len(MIGRATION_ORDER)
    /\ status[MIGRATION_ORDER[Len(MIGRATION_ORDER)]] = "Pending"
    /\ pc = "raised"

\* C16 - Final consistency report, as stated: the report is built only
\* after every table of MIGRATION_ORDER is Skipped or Completed, has exactly
\* one entry for every mapped table present in the source, and each entry
\* is flagged consistent exactly when the source table's row count equals
\* the destination table's row count at that time.
C16_ConsistencyReport ==
    /\ pc # "done" => report = NoReport
    /\ pc = "done" =>
          /\ \A t \in Tables : status[t] \in {"Skipped", "Completed"}
          /\ DOMAIN report = srcTables \cap Tables
          /\ \A t \in DOMAIN report :
                report[t].consistent <=> Len(srcRows[t]) = Len(dest[t])

\* C16 - Final consistency report, amended: the report is built only after
\* every table of MIGRATION_ORDER is Skipped or Completed; it has one entry
\* for every table the listing of the source returns at that time, which is
\* every mapped source table, or none when the listing fails; each entry
\* holds the two counts as returned, a failed count reading 0, and is
\* flagged consistent exactly when the two are equal; when no call of the
\* check failed, the entries are the true counts of all mapped source
\* tables.
C16_ConsistencyReportAmended ==
    /\ pc # "done" => report = NoReport
    /\ pc = "done" =>
          /\ \A t \in Tables : status[t] \in {"Skipped", "Completed"}
          /\ DOMAIN report \in {srcTables \cap Tables, {}}
          /\ \A t \in DOMAIN report :
                /\ report[t].sqlite \in {Len(srcRows[t]), 0}
                /\ report[t].postgres \in {Len(dest[t]), 0}
                /\ report[t].consistent <=>
                      report[t].sqlite = report[t].postgres
          /\ Last(history).faults = faults
          /\ CleanRun(run) =>
                /\ DOMAIN report = srcTables \cap Tables
                /\ \A t \in DOMAIN report :
                      /\ report[t].sqlite = Len(srcRows[t])
                      /\ report[t].postgres = Len(dest[t])

C16_Witness ==
    /\ pc = "done"
    /\ \E t \in DOMAIN report :
          /\ status[t] = "Skipped"
          /\ srcRows[t] # <<>>
          /\ report[t].sqlite = Len(srcRows[t])
    /\ \E t \in DOMAIN report :
          /\ status[t] = "Completed"
          /\ ~report[t].consistent
          /\ report[t].sqlite = Len(srcRows[t])
          /\ report[t].postgres = Len(dest[t])

IsPrefix(p, q) == Len(p) <= Len(q) /\ SubSeq(q, 1, Len(p)) = p

\* C17 - Conflict-skip leaves existing rows untouched: after a save_batch
\* that committed, every row of the batch whose primary key was already in
\* the destination table left the existing row as it was and added no
\* second row, and every other row of the batch is in the table, converted;
\* the rows a table held before a batch, and before a run, are still its
\* first rows afterwards, unchanged.
C17_ConflictSkip ==
    /\ \A t \in Tables : IsPrefix(destStart[t], dest[t])
    /\ \A k \in 1..Len(history) :
          \A t \in Tables : IsPrefix(history[k].start[t], history[k].end[t])
    /\ lastSave.table # "" =>
          LET t == lastSave.table
              batch == Last(yielded[t])
          IN  /\ IsPrefix(lastSave.before, dest[t])
              /\ lastSave.ok =>
                    \A i \in 1..Len(batch) :
                       LET new == ConvertRowValues(t, batch[i])
                           at == {j \in 1..Len(dest[t]) :
                                     dest[t][j]["id"] = new["id"]}
                       IN  /\ Cardinality(at) = 1
                           /\ \A j \in at :
                                 IF new["id"] \in Keys(lastSave.before)
                                 THEN /\ j <= Len(lastSave.before)
                                      /\ dest[t][j] = lastSave.before[j]
                                 ELSE /\ j > Len(lastSave.before)
                                      /\ dest[t][j] = new

C17_Witness ==
    /\ lastSave.table # ""
    /\ lastSave.ok
    /\ LET t == lastSave.table
           batch == Last(yielded[t])
       IN  /\ Len(batch) = 2
           /\ batch[1]["id"] \in Keys(lastSave.before)
           /\ \E j \in 1..Len(lastSave.before) :
                 /\ dest[t][j]["id"] = batch[1]["id"]
                 /\ dest[t][j] # ConvertRowValues(t, batch[1])
           /\ batch[2]["id"] \notin Keys(lastSave.before)
           /\ dest[t][Len(dest[t])] = ConvertRowValues(t, batch[2])

\* The column types of the destination schema.
DestColumnType(table_name, field_name) ==
    CASE field_name = "id"                                     -> "uuid"
      [] field_name \in {"created_at", "updated_at"}           -> "datetime"
      [] table_name = "film_work" /\ field_name = "creation_date" -> "date"
      [] table_name = "film_work" /\ field_name = "rating"     -> "float"
      [] OTHER                                                 -> "text"

\* The columns of the destination schema that accept NULL.
DestColumnNullable(table_name, field_name) ==
    /\ table_name = "film_work"
    /\ field_name \in {"creation_date", "rating", "file_path"}

\* The rows this run's save_batch calls gave to the insert of a table.
WrittenRows(t) ==
    LET rows == Concat(yielded[t])
    IN  {ConvertRowValues(t, rows[i]) : i \in 1..Len(rows)}

\* C18 - Destination column semantics: in every row passed to the insert, a
\* column that is numeric or date/time in the destination schema holds no
\* empty or whitespace-only string, and a text column that does not accept
\* NULL holds no NULL.
C18_DestinationColumnSemantics ==
    \A t \in Tables :
        \A row \in WrittenRows(t) :
            \A c \in DOMAIN row :
                /\ DestColumnType(t, c) \in {"date", "float", "datetime"} =>
                      ~(IsStr(row[c]) /\ Strip(row[c].s) = "")
                /\ DestColumnType(t, c) = "text"
                      /\ ~DestColumnNullable(t, c) => row[c] # NULL

\* C19 - Normalization is idempotent: a call of convert_value on the result
\* of an earlier call, for the same table and field, returns that result
\* again.
C19_ConvertIdempotent ==
    [][conv.calls >= 1 =>
          /\ conv'.calls = conv.calls + 1
          /\ conv'.result = conv.result]_vars

C19_Witness ==
    /\ conv.calls = MaxCalls
    /\ conv.table = "genre"
    /\ conv.field = "description"
    /\ conv.value = NULL
    /\ conv.result = Str("")

Succeeded ==
    /\ pc = "done"
    /\ \A t \in Tables : status[t] \in {"Skipped", "Completed"}
    /\ Len(history) = run
    /\ Last(history).outcome = "succeeded"

Raised ==
    /\ pc = "raised"
    /\ Cardinality({t \in Tables : status[t] = "Failed"}) = 1
    /\ \A t \in Tables : status[t] # "InProgress"
    /\ Len(history) = run
    /\ Last(history).outcome = "raised"

\* C20 - Termination: every run of main that has started eventually ends,
\* either succeeded (every table Skipped or Completed, the consistency
\* check done) or raised (exactly one table Failed, none InProgress),
\* whatever the source holds and whichever store calls fail.
C20_Termination ==
    (pc = "start") ~> (Succeeded \/ Raised)

C20_Witness ==
    /\ Raised
    /\ run = MaxRuns
    /\ \E t \in Tables : status[t] = "Completed"
    /\ \E t \in Tables : status[t] = "Failed" /\ Len(yielded[t]) = 2

====
